---- MODULE Spec2Model ----
(***************************************************************************)
(* Model of monolith/native_training/data/datasets.py: the dataset         *)
(* constructors (PBDataset, InstanceReweightDataset, NegativeGenDataset,   *)
(* SplitFlowDataset, MergeFlowDataset, KafkaDataset) and the streaming     *)
(* operators they configure (item pool, negative generator, reweighter,    *)
(* flow split/merge).  The constructors are translated from the Python     *)
(* source; the operators they hand their attributes to are native kernels  *)
(* whose behaviour is taken from the design document.                      *)
(***************************************************************************)
EXTENDS Integers, Sequences, FiniteSets, TLC

VARIABLES
  \* ---- negative generator and item pool
  args,         \* the arguments NegativeGenDataset was called with
  op,           \* the attributes the constructor handed to pool and kernel
  pool,         \* channel key -> bucket (sequence of items, oldest first)
  hist,         \* channel key -> every item ever inserted, in order (ghost)
  admitted,     \* number of items admitted so far, over all buckets
  warm,         \* the pool's COLD (FALSE) / WARM (TRUE) state
  transitions,  \* how many times COLD -> WARM was performed (ghost)
  warmAt,       \* value of admitted when the transition was performed (ghost)
  lock,         \* 0, or the worker that holds the pool's mutex
  pc,           \* worker -> position
  cur,          \* worker -> the record it is processing
  nextRec,      \* index of the next input record
  emitted,      \* what was emitted for the record processed last (ghost)
  \* ---- flow split / merge
  fargs,        \* the max_queue_size arguments of split_flow and merge_flow
  splitOps,     \* flow index -> the SplitFlowDataset built for it
  mergeOp,      \* the MergeFlowDataset built over the split datasets
  nextIn,       \* id of the next record of the finite input
  inHand,       \* the record the split producer has read and not yet queued
  inputLog,     \* every record read from the finite input, in order (ghost)
  splitQ,       \* flow index -> the split operator's bounded queue
  splitEos,     \* the input has ended and the split queues were told so
  hold,         \* merge upstream -> record popped upstream, not yet queued
  mergeQ,       \* merge upstream -> the merge operator's bounded queue
  mergeEos,     \* merge upstream -> end-of-stream was signalled
  rr,           \* the merge consumer's round-robin cursor
  output,       \* the merged sequence (kept for a finite input only)
  ended,        \* the merged sequence has ended
  tracked,      \* stream mode: "none", "inflight" or "emitted" (ghost)
  cancel,       \* the cancellation signal and the workers that returned on it
  \* ---- instance reweight
  rw,           \* the reweight run: its arguments, the operator built, one record
  \* ---- constructors
  mc,           \* a MergeFlowDataset construction: its inputs and its outcome
  kafka,        \* a KafkaDataset construction: its arguments and its outcome
  pb,           \* a PBDataset construction: its arguments and its outcome
  ng            \* a negative generator built through both of its entry points

poolVars == <<args, op, pool, hist, admitted, warm, transitions, warmAt, lock,
              pc, cur, nextRec, emitted>>

flowVars == <<fargs, splitOps, mergeOp, nextIn, inHand, inputLog, splitQ,
              splitEos, hold, mergeQ, mergeEos, rr, output, ended, tracked>>

ctorVars == <<mc, kafka, pb, ng>>

vars == <<poolVars, flowVars, cancel, rw, ctorVars>>

\* what an action of one operator leaves alone
notPool == <<flowVars, cancel, rw, ctorVars>>
notFlow == <<poolVars, cancel, rw, ctorVars>>

-----------------------------------------------------------------------------
(* Bounds *)
NumWorkers  == 2
MaxRecords  == 3
NumChannels == 2
MaxStartNum == 3
MaxItemNum  == 2
MaxNegNum   == 2
MaxInput    == 4
MaxQueueSize == 2
MaxRules    == 2
MaxWeight   == 3
MaxMerge    == 2
MaxTimeout  == 7
MaxFeatures == 2

Workers  == 1..NumWorkers
Channels == 1..NumChannels
ImplicitChannel == 0
Keys     == {ImplicitChannel} \cup Channels

Range(s) == {s[i] : i \in 1..Len(s)}
Min(a, b) == IF a < b THEN a ELSE b
Max(a, b) == IF a > b THEN a ELSE b
LastN(s, n) == SubSeq(s, Len(s) - Min(n, Len(s)) + 1, Len(s))

-----------------------------------------------------------------------------
(* NegativeGenDataset.__init__ *)

\* mutants: the two keyword arguments of create_item_pool mixed up
create_item_pool_capacity_from_start_num(start_num, max_item_num) ==
  [start_num |-> start_num, max_item_num_per_channel |-> start_num]

create_item_pool_start_num_from_capacity(start_num, max_item_num) ==
  [start_num |-> max_item_num, max_item_num_per_channel |-> max_item_num]

\* create_item_pool(start_num=start_num, max_item_num_per_channel=max_item_num)
create_item_pool(start_num, max_item_num) ==
  [start_num |-> start_num, max_item_num_per_channel |-> max_item_num]

\* mutant: throw_origin and throw_origin_neg forwarded crosswise
NegativeGenDataset_throw_flags_crossed(a) ==
  [pool             |-> create_item_pool(a.start_num, a.max_item_num),
   neg_num          |-> a.neg_num,
   per_channel      |-> a.per_channel,
   positive_label   |-> a.positive_label,
   negative_label   |-> a.negative_label,
   throw_origin     |-> a.throw_origin_neg,
   throw_origin_neg |-> a.throw_origin,
   cache_only_pos   |-> a.cache_only_pos]

\* the attributes of instance_negative_gen_dataset
NegativeGenDataset(a) ==
  [pool             |-> create_item_pool(a.start_num, a.max_item_num),
   neg_num          |-> a.neg_num,
   per_channel      |-> a.per_channel,
   positive_label   |-> a.positive_label,
   negative_label   |-> a.negative_label,
   throw_origin     |-> a.throw_origin,
   throw_origin_neg |-> a.throw_origin_neg,
   cache_only_pos   |-> a.cache_only_pos]

\* the argument sets that are explored
NegGenArgs ==
  [neg_num          : 1..MaxNegNum,
   per_channel      : BOOLEAN,
   start_num        : 1..MaxStartNum,
   max_item_num     : 1..MaxItemNum,
   positive_label   : {1},
   negative_label   : {-1},
   throw_origin     : BOOLEAN,
   throw_origin_neg : BOOLEAN,
   cache_only_pos   : BOOLEAN]

-----------------------------------------------------------------------------
(* Item pool *)

NoRec == [label |-> 0, channel |-> 0]

\* the channels a record may carry; the channel feature is read only when
\* per_channel is set
RecordChannels == IF op.per_channel THEN Channels ELSE {1}
Pending == [any |-> FALSE, positive |-> FALSE, warm |-> FALSE, orig |-> 0,
            negs |-> 0]

IsPositive(r) == r.label = op.positive_label

\* bucket key of a record: its channel, or the single implicit bucket
BucketKey(r) == IF op.per_channel THEN r.channel ELSE ImplicitChannel

\* a record's item is admitted if it is positive, or if negatives are cached too
Admissible(r) == IsPositive(r) \/ ~op.cache_only_pos

\* ring buffer insertion: append, dropping the oldest item on overflow
BucketInsert(b, item) ==
  IF Len(b) >= op.pool.max_item_num_per_channel
    THEN Append(Tail(b), item)
    ELSE Append(b, item)

PoolIdle ==
  /\ args = <<>> /\ op = <<>> /\ pool = <<>> /\ hist = <<>> /\ admitted = 0
  /\ warm = FALSE /\ transitions = 0 /\ warmAt = 0 /\ lock = 0 /\ pc = <<>>
  /\ cur = <<>> /\ nextRec = 0 /\ emitted = <<>>

PoolInit ==
  /\ args \in NegGenArgs
  /\ op = NegativeGenDataset(args)
  /\ pool = [k \in Keys |-> <<>>]
  /\ hist = [k \in Keys |-> <<>>]
  /\ admitted = 0
  /\ warm = FALSE
  /\ transitions = 0
  /\ warmAt = 0
  /\ lock = 0
  /\ pc = [w \in Workers |-> "idle"]
  /\ cur = [w \in Workers |-> NoRec]
  /\ nextRec = 1
  /\ emitted = Pending

\* a worker takes the next input record
Pull(w) ==
  /\ pc[w] = "idle"
  /\ nextRec <= MaxRecords
  /\ nextRec' = nextRec + 1
  /\ pc' = [pc EXCEPT ![w] = "insert"]
  /\ UNCHANGED notPool
  /\ UNCHANGED <<args, op, pool, hist, admitted, warm, transitions, warmAt,
                 lock, cur, emitted>>

\* step 1: under the pool's mutex, read the record's label and channel and
\* insert its item into its bucket; every record brings a new item, which is
\* named by its place in the order of admission
Insert(w) ==
  /\ pc[w] = "insert"
  /\ lock = 0
  /\ lock' = w
  /\ \E lab \in {op.positive_label, op.negative_label}, ch \in RecordChannels :
       LET r == [label |-> lab, channel |-> ch]
           k == BucketKey(r)
       IN /\ cur' = [cur EXCEPT ![w] = r]
          /\ IF Admissible(r)
               THEN /\ pool' = [pool EXCEPT ![k] = BucketInsert(@, admitted + 1)]
                    /\ hist' = [hist EXCEPT ![k] = Append(@, admitted + 1)]
                    /\ admitted' = admitted + 1
               ELSE UNCHANGED <<pool, hist, admitted>>
  /\ pc' = [pc EXCEPT ![w] = "transition"]
  /\ UNCHANGED notPool
  /\ UNCHANGED <<args, op, warm, transitions, warmAt, nextRec, emitted>>

\* still under the mutex: COLD -> WARM once start_num items were admitted
Transition(w) ==
  /\ pc[w] = "transition"
  /\ lock = w
  /\ IF ~warm /\ admitted >= op.pool.start_num
       THEN /\ warm' = TRUE
            /\ transitions' = transitions + 1
            /\ warmAt' = admitted
       ELSE UNCHANGED <<warm, transitions, warmAt>>
  /\ pc' = [pc EXCEPT ![w] = "generate"]
  /\ UNCHANGED notPool
  /\ UNCHANGED <<args, op, pool, hist, admitted, lock, cur, nextRec, emitted>>

\* steps 2 and 3: emit the original and, while WARM, the sampled negatives
Generate(w) ==
  /\ pc[w] = "generate"
  /\ lock = w
  /\ LET r == cur[w]
         b == pool[BucketKey(r)]
         n == IF warm /\ IsPositive(r) /\ Len(b) > 0 THEN op.neg_num ELSE 0
         keep == IF IsPositive(r) THEN ~op.throw_origin
                                  ELSE ~op.throw_origin_neg
     IN \* each negative is sampled from the bucket; only their number is kept
        \E samples \in [1..n -> Range(b)] :
          emitted' = [any |-> TRUE, positive |-> IsPositive(r), warm |-> warm,
                      orig |-> IF keep THEN 1 ELSE 0, negs |-> Len(samples)]
  /\ lock' = 0
  /\ pc' = [pc EXCEPT ![w] = "idle"]
  /\ cur' = [cur EXCEPT ![w] = NoRec]
  /\ UNCHANGED notPool
  /\ UNCHANGED <<args, op, pool, hist, admitted, warm, transitions, warmAt,
                 nextRec>>

-----------------------------------------------------------------------------
(* Claims about the item pool and the negative generator *)

\* C1: a bucket of the pool created with max_item_num_per_channel = M never
\* holds more than M items, and it holds exactly the (at most M) most recently
\* inserted items in insertion order: every overflow evicts the oldest item.
C1_BucketCapacity ==
  \A k \in Keys :
    /\ Len(pool[k]) <= args.max_item_num
    /\ pool[k] = LastN(hist[k], args.max_item_num)

\* a bucket that received more than M items and holds M of them
C1_Witness ==
  \E k \in Keys :
    /\ Len(hist[k]) > args.max_item_num
    /\ Len(pool[k]) = args.max_item_num
    /\ pool[k] # SubSeq(hist[k], 1, args.max_item_num)

\* C2: the pool goes COLD -> WARM exactly once, when the start_num-th item is
\* admitted (counted over all buckets), and is never COLD afterwards; with
\* concurrent workers the transition is performed by one of them only.
C2_WarmOnce ==
  /\ transitions <= 1
  /\ warm <=> transitions = 1
  /\ warm => warmAt = args.start_num
  /\ ~warm => \/ admitted < args.start_num
              \/ /\ admitted = args.start_num
                 /\ \E w \in Workers : lock = w /\ pc[w] = "transition"

\* WARM, more items admitted since, an eviction happened, a second worker waits
C2_Witness ==
  /\ warm
  /\ transitions = 1
  /\ admitted > args.start_num
  /\ \E k \in Keys : Len(hist[k]) > Len(pool[k])
  /\ \E w \in Workers : pc[w] = "insert" /\ lock # 0

\* C4: a positive record processed while the pool is WARM yields exactly
\* neg_num negatives, besides the original if throw_origin is false and instead
\* of it if throw_origin is true; a record processed while COLD yields none.
C4_NegCount ==
  emitted.any =>
    /\ (emitted.warm /\ emitted.positive) =>
          /\ emitted.negs = args.neg_num
          /\ emitted.orig = IF args.throw_origin THEN 0 ELSE 1
    /\ ~emitted.warm => emitted.negs = 0

\* a positive record processed WARM with throw_origin set, after records that
\* were processed COLD: neg_num negatives and no original
C4_Witness ==
  /\ args.throw_origin
  /\ args.start_num > 1
  /\ emitted.any
  /\ emitted.positive
  /\ emitted.warm
  /\ emitted.negs = args.neg_num
  /\ emitted.orig = 0

PoolNext ==
  \/ \E w \in Workers : Pull(w)
  \/ \E w \in Workers : Insert(w)
  \/ \E w \in Workers : Transition(w)
  \/ \E w \in Workers : Generate(w)

-----------------------------------------------------------------------------
(* SplitFlowDataset, MergeFlowDataset, split_flow, merge_flow *)

VariantScalar == [types |-> "variant", shapes |-> <<>>, classes |-> "Tensor"]

\* SplitFlowDataset.__init__: the attributes of split_flow_dataset
SplitFlowDataset(input_dataset, data_flow, index, max_queue_size) ==
  [element_spec   |-> VariantScalar,
   input          |-> input_dataset,
   data_flow      |-> data_flow,
   index          |-> index,
   max_queue_size |-> max_queue_size]

\* mutant: the caller's max_queue_size is not forwarded (the default is used)
split_flow_default_queue_size(self, data_flow, index, max_queue_size) ==
  SplitFlowDataset(self, data_flow, index, 1024)

\* Dataset.split_flow
split_flow(self, data_flow, index, max_queue_size) ==
  SplitFlowDataset(self, data_flow, index, max_queue_size)

\* mutant: self._input_datasets holds only the datasets to merge
MergeInputs_without_main(input_dataset, dataset_to_merge) == dataset_to_merge

\* mutant: self._input_datasets holds only the main input
MergeInputs_main_only(input_dataset, dataset_to_merge) == <<input_dataset>>

\* self._input_datasets = [input_dataset] + dataset_to_merge
MergeInputs(input_dataset, dataset_to_merge) ==
  <<input_dataset>> \o dataset_to_merge

\* data_flow = ['input_ds'] + ['ds_to_merge_{}'.format(i+1) for i in range(n)]
MergeDataFlow(dataset_to_merge) ==
  <<"input_ds">> \o [i \in 1..Len(dataset_to_merge) |-> <<"ds_to_merge_", i>>]

\* MergeFlowDataset.__init__ past its checks: the attributes of merge_flow_dataset
MergeFlowDataset(input_dataset, dataset_to_merge, max_queue_size) ==
  [input_datasets |-> MergeInputs(input_dataset, dataset_to_merge),
   data_flow      |-> MergeDataFlow(dataset_to_merge),
   max_queue_size |-> max_queue_size]

\* Dataset.merge_flow
merge_flow(self, dataset_to_merge, max_queue_size) ==
  MergeFlowDataset(self, dataset_to_merge, max_queue_size)

-----------------------------------------------------------------------------
(* Flow queues: split producer, merge prefetchers, merge consumer *)

\* the pipeline that is explored routes its input into two named flows
FlowNames == <<"flow_a", "flow_b">>
Flows == DOMAIN FlowNames
NoFlowRec == [id |-> -1, flow |-> 0]
Source == "source"

Upstreams == 1..Len(mergeOp.input_datasets)
\* the flow whose split dataset is the merge's u-th input
FlowOf(u) == mergeOp.input_datasets[u].index

FlowArgs == [split : 1..MaxQueueSize, merge : 1..MaxQueueSize]
\* on an endless input both operators get the same max_queue_size
StreamArgs == {a \in FlowArgs : a.split = a.merge}

\* input.split_flow(names, f, q) for every flow f, then
\* splits[1].merge_flow([splits[2], ...], q)
FlowCompose(argsets) ==
  /\ fargs \in argsets
  /\ splitOps = [f \in Flows |-> split_flow(Source, FlowNames, f, fargs.split)]
  /\ mergeOp = merge_flow(splitOps[1],
                          [i \in 1..(Len(FlowNames) - 1) |-> splitOps[i + 1]],
                          fargs.merge)

FlowIdle ==
  /\ fargs = <<>> /\ splitOps = <<>> /\ mergeOp = <<>> /\ nextIn = 0
  /\ inHand = <<>> /\ inputLog = <<>> /\ splitQ = <<>> /\ splitEos = FALSE
  /\ hold = <<>> /\ mergeQ = <<>> /\ mergeEos = <<>> /\ rr = 0
  /\ output = <<>> /\ ended = FALSE /\ tracked = "none"
  /\ cancel = <<>>

FlowInit(argsets) ==
  /\ FlowCompose(argsets)
  /\ nextIn = 1
  /\ inHand = NoFlowRec
  /\ inputLog = <<>>
  /\ splitQ = [f \in Flows |-> <<>>]
  /\ splitEos = FALSE
  /\ hold = [u \in Upstreams |-> NoFlowRec]
  /\ mergeQ = [u \in Upstreams |-> <<>>]
  /\ mergeEos = [u \in Upstreams |-> FALSE]
  /\ rr = 1
  /\ output = <<>>
  /\ ended = FALSE
  /\ tracked = "none"
  /\ cancel = [raised |-> FALSE, returned |-> {}]

\* the split producer reads the next record of a finite input
SplitRead ==
  /\ ~splitEos
  /\ inHand = NoFlowRec
  /\ nextIn <= MaxInput
  /\ \E f \in Flows : inHand' = [id |-> nextIn, flow |-> f]
  /\ inputLog' = Append(inputLog, inHand')
  /\ nextIn' = nextIn + 1
  /\ UNCHANGED notFlow
  /\ UNCHANGED <<fargs, splitOps, mergeOp, splitQ, splitEos, hold, mergeQ,
                 mergeEos, rr, output, ended, tracked>>

\* the split producer reads the next record of an endless input; one record
\* of the stream, picked at will, is tracked
StreamRead ==
  /\ ~splitEos
  /\ inHand = NoFlowRec
  /\ \E f \in Flows, t \in {0, 1} :
       /\ t = 1 => tracked = "none"
       /\ inHand' = [id |-> t, flow |-> f]
       /\ tracked' = IF t = 1 THEN "inflight" ELSE tracked
  /\ UNCHANGED notFlow
  /\ UNCHANGED <<fargs, splitOps, mergeOp, nextIn, inputLog, splitQ, splitEos,
                 hold, mergeQ, mergeEos, rr, output, ended>>

\* blocking push: the producer waits while the record's queue is full
SplitPush ==
  /\ inHand # NoFlowRec
  /\ Len(splitQ[inHand.flow]) < splitOps[inHand.flow].max_queue_size
  /\ splitQ' = [splitQ EXCEPT ![inHand.flow] = Append(@, inHand)]
  /\ inHand' = NoFlowRec
  /\ UNCHANGED notFlow
  /\ UNCHANGED <<fargs, splitOps, mergeOp, nextIn, inputLog, splitEos, hold,
                 mergeQ, mergeEos, rr, output, ended, tracked>>

\* the input ends: end-of-stream is propagated to every split queue
SplitEnd ==
  /\ ~splitEos
  /\ inHand = NoFlowRec
  /\ splitEos' = TRUE
  /\ UNCHANGED notFlow
  /\ UNCHANGED <<fargs, splitOps, mergeOp, nextIn, inHand, inputLog, splitQ,
                 hold, mergeQ, mergeEos, rr, output, ended, tracked>>

\* the merge's prefetcher of upstream u pops a record from the split queue
MergePop(u) ==
  /\ hold[u] = NoFlowRec
  /\ splitQ[FlowOf(u)] # <<>>
  /\ hold' = [hold EXCEPT ![u] = Head(splitQ[FlowOf(u)])]
  /\ splitQ' = [splitQ EXCEPT ![FlowOf(u)] = Tail(@)]
  /\ UNCHANGED notFlow
  /\ UNCHANGED <<fargs, splitOps, mergeOp, nextIn, inHand, inputLog, splitEos,
                 mergeQ, mergeEos, rr, output, ended, tracked>>

\* blocking push into the merge queue of upstream u
MergePush(u) ==
  /\ hold[u] # NoFlowRec
  /\ Len(mergeQ[u]) < mergeOp.max_queue_size
  /\ mergeQ' = [mergeQ EXCEPT ![u] = Append(@, hold[u])]
  /\ hold' = [hold EXCEPT ![u] = NoFlowRec]
  /\ UNCHANGED notFlow
  /\ UNCHANGED <<fargs, splitOps, mergeOp, nextIn, inHand, inputLog, splitQ,
                 splitEos, mergeEos, rr, output, ended, tracked>>

\* upstream u is permanently drained: its end-of-stream reaches the merge
MergeUpstreamEnd(u) ==
  /\ ~mergeEos[u]
  /\ splitEos
  /\ splitQ[FlowOf(u)] = <<>>
  /\ hold[u] = NoFlowRec
  /\ mergeEos' = [mergeEos EXCEPT ![u] = TRUE]
  /\ UNCHANGED notFlow
  /\ UNCHANGED <<fargs, splitOps, mergeOp, nextIn, inHand, inputLog, splitQ,
                 splitEos, hold, mergeQ, rr, output, ended, tracked>>

Ready == {u \in Upstreams : mergeQ[u] # <<>>}
Dist(a, b) == (b - a) % Len(mergeOp.input_datasets)

\* whichever upstream has data; round-robin from the cursor when several have
Pick == CHOOSE u \in Ready : \A v \in Ready : Dist(rr, u) <= Dist(rr, v)

\* the consumer pulls one record of the merged sequence
MergeNext ==
  /\ Ready # {}
  /\ output' = Append(output, Head(mergeQ[Pick]))
  /\ mergeQ' = [mergeQ EXCEPT ![Pick] = Tail(@)]
  /\ rr' = (Pick % Len(mergeOp.input_datasets)) + 1
  /\ UNCHANGED notFlow
  /\ UNCHANGED <<fargs, splitOps, mergeOp, nextIn, inHand, inputLog, splitQ,
                 splitEos, hold, mergeEos, ended, tracked>>

\* the same pull on an endless input, where the merged sequence is not kept
StreamMergeNext ==
  /\ Ready # {}
  /\ tracked' = IF Head(mergeQ[Pick]).id = 1 THEN "emitted" ELSE tracked
  /\ mergeQ' = [mergeQ EXCEPT ![Pick] = Tail(@)]
  /\ rr' = (Pick % Len(mergeOp.input_datasets)) + 1
  /\ UNCHANGED notFlow
  /\ UNCHANGED <<fargs, splitOps, mergeOp, nextIn, inHand, inputLog, splitQ,
                 splitEos, hold, mergeEos, output, ended>>

\* the merged sequence ends
MergeEnd ==
  /\ ~ended
  /\ \A u \in Upstreams : mergeEos[u] /\ mergeQ[u] = <<>>
  /\ ended' = TRUE
  /\ UNCHANGED notFlow
  /\ UNCHANGED <<fargs, splitOps, mergeOp, nextIn, inHand, inputLog, splitQ,
                 splitEos, hold, mergeQ, mergeEos, rr, output, tracked>>

-----------------------------------------------------------------------------
(* Claims about split and merge *)

OfFlow(s, f) == SelectSeq(s, LAMBDA r : r.flow = f)
AsSeq(r) == IF r = NoFlowRec THEN <<>> ELSE <<r>>
AllDrained == \A u \in Upstreams : mergeEos[u] /\ mergeQ[u] = <<>>

\* C5: once the merged sequence has ended, it holds every record that was
\* routed through Split exactly once (equal multisets: no record lost, none
\* duplicated), and the records of each flow are in the order they entered it.
C5_SplitMergeDuality ==
  ended =>
    /\ Len(output) = Len(inputLog)
    /\ Range(output) = Range(inputLog)
    /\ \A f \in Flows : OfFlow(output, f) = OfFlow(inputLog, f)

\* all MaxInput records went through, over both flows, and came out reordered
C5_Witness ==
  /\ ended
  /\ Len(output) = MaxInput
  /\ \A f \in Flows : OfFlow(inputLog, f) # <<>>
  /\ output # inputLog

\* C6: no split or merge queue ever holds more than the max_queue_size it was
\* configured with, and a producer that meets a full queue waits: every record
\* read so far is, in order, in the output, a queue or a producer's hand.
C6_QueueBound ==
  /\ \A f \in Flows : Len(splitQ[f]) <= fargs.split
  /\ \A u \in Upstreams :
       /\ Len(mergeQ[u]) <= fargs.merge
       /\ OfFlow(output, FlowOf(u)) \o mergeQ[u] \o AsSeq(hold[u])
            \o splitQ[FlowOf(u)] \o OfFlow(AsSeq(inHand), FlowOf(u))
          = OfFlow(inputLog, FlowOf(u))

\* the split producer and a merge prefetcher both wait at a full queue
C6_Witness ==
  /\ inHand # NoFlowRec
  /\ Len(splitQ[inHand.flow]) = fargs.split
  /\ \E u \in Upstreams : hold[u] # NoFlowRec /\ Len(mergeQ[u]) = fargs.merge

\* C10: with fair scheduling and a consumer that keeps pulling, every record
\* that entered a flow is eventually emitted by Merge, whatever the other
\* flows deliver; the merged sequence ends only when every upstream has
\* signalled end-of-stream and its queue is empty, and then it does end.
C10_MergeLiveness ==
  /\ (tracked = "inflight") ~> (tracked = "emitted")
  /\ [](ended => AllDrained)
  /\ AllDrained ~> ended
  /\ splitEos ~> ended

\* the tracked record was emitted while the other upstream was empty and not
\* ended, and the merged sequence ended afterwards
C10_Witness ==
  /\ ended
  /\ tracked = "emitted"

FlowNext ==
  \/ SplitRead
  \/ SplitPush
  \/ SplitEnd
  \/ \E u \in Upstreams : MergePop(u)
  \/ \E u \in Upstreams : MergePush(u)
  \/ \E u \in Upstreams : MergeUpstreamEnd(u)
  \/ MergeNext
  \/ MergeEnd

StreamNext ==
  \/ StreamRead
  \/ SplitPush
  \/ SplitEnd
  \/ \E u \in Upstreams : MergePop(u)
  \/ \E u \in Upstreams : MergePush(u)
  \/ \E u \in Upstreams : MergeUpstreamEnd(u)
  \/ StreamMergeNext
  \/ MergeEnd

\* the pipeline's threads (the split producer, one prefetcher per upstream,
\* the consumer) are each scheduled fairly, and the consumer keeps pulling;
\* nothing is assumed of the input source
Prefetch(u) ==
  u \in Upstreams /\ (MergePop(u) \/ MergePush(u) \/ MergeUpstreamEnd(u))

StreamFairness ==
  /\ WF_vars(SplitPush)
  /\ \A u \in Flows : WF_vars(Prefetch(u))
  /\ WF_vars(StreamMergeNext \/ MergeEnd)

-----------------------------------------------------------------------------
(* Cancellation: the consumer stops pulling and the pipeline-wide signal is
   raised; the workers are the split producer and the merge prefetchers *)

SplitWorker == 0
Returned(t) == t \in cancel.returned

\* mutant: the signal wakes a waiting pop, a waiting push does not look at it
WaitReturns_pop_only(kind) == cancel.raised /\ kind = "pop"

\* a blocking push or pop returns once the signal is raised
WaitReturns(kind) == cancel.raised

\* the split producer waits in a push on a full flow queue
SplitPushBlocked ==
  /\ ~Returned(SplitWorker)
  /\ inHand # NoFlowRec
  /\ Len(splitQ[inHand.flow]) >= splitOps[inHand.flow].max_queue_size

\* the prefetcher of upstream u waits in a pop on an empty flow queue
PopBlocked(u) ==
  /\ u \in Upstreams /\ ~Returned(u)
  /\ hold[u] = NoFlowRec
  /\ splitQ[FlowOf(u)] = <<>>
  /\ ~splitEos

\* the prefetcher of upstream u waits in a push on a full flow queue
MergePushBlocked(u) ==
  /\ u \in Upstreams /\ ~Returned(u)
  /\ hold[u] # NoFlowRec
  /\ Len(mergeQ[u]) >= mergeOp.max_queue_size

\* the consumer stops pulling before the end and the signal is raised
Cancel ==
  /\ ~cancel.raised
  /\ ~ended
  /\ cancel' = [cancel EXCEPT !.raised = TRUE]
  /\ UNCHANGED <<poolVars, flowVars, rw, ctorVars>>

\* the producer's waiting push returns on the signal; the producer is done
CancelledPush ==
  /\ SplitPushBlocked
  /\ WaitReturns("push")
  /\ cancel' = [cancel EXCEPT !.returned = @ \cup {SplitWorker}]
  /\ UNCHANGED <<poolVars, flowVars, rw, ctorVars>>

\* a prefetcher's waiting pop or push returns on the signal
CancelledPrefetch(u) ==
  /\ \/ PopBlocked(u) /\ WaitReturns("pop")
     \/ MergePushBlocked(u) /\ WaitReturns("push")
  /\ cancel' = [cancel EXCEPT !.returned = @ \cup {u}]
  /\ UNCHANGED <<poolVars, flowVars, rw, ctorVars>>

\* the steps of the workers that have not returned; no record is tracked
LiveRead == ~Returned(SplitWorker) /\ StreamRead /\ tracked' = tracked
LivePush == ~Returned(SplitWorker) /\ SplitPush
LiveEnd == ~Returned(SplitWorker) /\ SplitEnd
LivePrefetch(u) == ~Returned(u) /\ Prefetch(u)
\* the consumer pulls until the signal is raised
LivePull == ~cancel.raised /\ (StreamMergeNext \/ MergeEnd)

CancelNext ==
  \/ LiveRead
  \/ LivePush
  \/ LiveEnd
  \/ \E u \in Upstreams : LivePrefetch(u)
  \/ LivePull
  \/ Cancel
  \/ CancelledPush
  \/ \E u \in Upstreams : CancelledPrefetch(u)

\* every worker thread is scheduled fairly; nothing is assumed of the input
\* source, of the consumer, or of when the signal is raised
CancelFairness ==
  /\ WF_vars(LivePush \/ CancelledPush)
  /\ \A u \in Flows : WF_vars(LivePrefetch(u) \/ CancelledPrefetch(u))

Blocked(u) == PopBlocked(u) \/ MergePushBlocked(u)

\* C11: once the consumer has stopped pulling and the cancellation signal is
\* raised, a worker that waits in a push on a full flow queue or in a pop on
\* an empty flow queue eventually leaves the wait: no worker stays blocked
\* forever after cancellation.
C11_CancelUnblocks ==
  /\ (cancel.raised /\ SplitPushBlocked) ~> ~SplitPushBlocked
  /\ \A u \in Flows : (cancel.raised /\ Blocked(u)) ~> ~Blocked(u)

\* after cancellation the producer returned from a push on a full queue, one
\* prefetcher from a push on a full queue, another from a pop on an empty one
C11_Witness ==
  /\ cancel.raised
  /\ Returned(SplitWorker)
  /\ inHand # NoFlowRec
  /\ Len(splitQ[inHand.flow]) = fargs.split
  /\ \E u, v \in Upstreams :
       /\ Returned(u) /\ hold[u] # NoFlowRec /\ Len(mergeQ[u]) = fargs.merge
       /\ Returned(v) /\ hold[v] = NoFlowRec /\ splitQ[FlowOf(v)] = <<>>

-----------------------------------------------------------------------------
(* Strings, as sequences of one-character strings: str.strip, str.split, int *)

DigitChars == <<"0", "1", "2", "3", "4", "5", "6", "7", "8", "9">>
IsDigit(c) == \E i \in 1..10 : DigitChars[i] = c
DigitVal(c) == (CHOOSE i \in 1..10 : DigitChars[i] = c) - 1

RECURSIVE LStrip(_)
LStrip(s) == IF s # <<>> /\ Head(s) = " " THEN LStrip(Tail(s)) ELSE s

RECURSIVE RStrip(_)
RStrip(s) ==
  IF s # <<>> /\ s[Len(s)] = " " THEN RStrip(SubSeq(s, 1, Len(s) - 1)) ELSE s

\* str.strip()
Strip(s) == RStrip(LStrip(s))

\* str.split(sep): the pieces between the separators, empty pieces included
RECURSIVE SplitFrom(_, _, _)
SplitFrom(s, sep, piece) ==
  IF s = <<>> THEN <<piece>>
  ELSE IF Head(s) = sep THEN <<piece>> \o SplitFrom(Tail(s), sep, <<>>)
  ELSE SplitFrom(Tail(s), sep, Append(piece, Head(s)))

Split(s, sep) == SplitFrom(s, sep, <<>>)

RECURSIVE DigitsValue(_, _)
DigitsValue(s, acc) ==
  IF s = <<>> THEN acc ELSE DigitsValue(Tail(s), 10 * acc + DigitVal(Head(s)))

\* int(s): blanks around, an optional sign, then digits; otherwise ValueError
ParseInt(s) ==
  LET t == Strip(s)
      signed == t # <<>> /\ Head(t) \in {"-", "+"}
      body == IF signed THEN Tail(t) ELSE t
  IN IF body = <<>> \/ \E i \in 1..Len(body) : ~IsDigit(body[i])
       THEN [ok |-> FALSE, val |-> 0]
       ELSE [ok |-> TRUE,
             val |-> IF signed /\ Head(t) = "-" THEN 0 - DigitsValue(body, 0)
                                                ELSE DigitsValue(body, 0)]

-----------------------------------------------------------------------------
(* InstanceReweightDataset.__init__ *)

ValueError == "ValueError"

\* (action, weight, label) = item.strip().split(':'), each through int()
ParseRule(item) ==
  LET parts == Split(Strip(item), ":")
  IN IF Len(parts) # 3 THEN [ok |-> FALSE]
     ELSE LET a == ParseInt(parts[1])
              w == ParseInt(parts[2])
              l == ParseInt(parts[3])
          IN IF a.ok /\ w.ok /\ l.ok
               THEN [ok |-> TRUE, action |-> a.val, weight |-> w.val,
                     label |-> l.val]
               ELSE [ok |-> FALSE]

\* mutant: the weight and label fields of a rule are taken in the wrong order
InstanceReweightDataset_weight_label_swapped(action_priority, reweight) ==
  LET rules == [i \in DOMAIN Split(Strip(reweight), ",") |->
                  ParseRule(Split(Strip(reweight), ",")[i])]
      prios == [i \in DOMAIN Split(Strip(action_priority), ",") |->
                  ParseInt(Split(Strip(action_priority), ",")[i])]
  IN IF (\E i \in DOMAIN rules : ~rules[i].ok)
          \/ (\E i \in DOMAIN prios : ~prios[i].ok)
       THEN [error |-> ValueError]
       ELSE [error      |-> "",
             method     |-> 0,
             actions    |-> [i \in DOMAIN rules |-> rules[i].action],
             weights    |-> [i \in DOMAIN rules |-> rules[i].label],
             labels     |-> [i \in DOMAIN rules |-> rules[i].weight],
             priorities |-> [i \in DOMAIN prios |-> prios[i].val]]

\* the attributes of instance_reweight_dataset, or the exception raised
InstanceReweightDataset(action_priority, reweight) ==
  LET rules == [i \in DOMAIN Split(Strip(reweight), ",") |->
                  ParseRule(Split(Strip(reweight), ",")[i])]
      prios == [i \in DOMAIN Split(Strip(action_priority), ",") |->
                  ParseInt(Split(Strip(action_priority), ",")[i])]
  IN IF (\E i \in DOMAIN rules : ~rules[i].ok)
          \/ (\E i \in DOMAIN prios : ~prios[i].ok)
       THEN [error |-> ValueError]
       ELSE [error      |-> "",
             method     |-> 0,
             actions    |-> [i \in DOMAIN rules |-> rules[i].action],
             weights    |-> [i \in DOMAIN rules |-> rules[i].weight],
             labels     |-> [i \in DOMAIN rules |-> rules[i].label],
             priorities |-> [i \in DOMAIN prios |-> prios[i].val]]

\* Dataset.instance_reweight
instance_reweight(action_priority, reweight) ==
  InstanceReweightDataset(action_priority, reweight)

-----------------------------------------------------------------------------
(* The strings that are explored: written from a rule list and a priority list *)

RECURSIVE NatStr(_)
NatStr(n) ==
  IF n < 10 THEN <<DigitChars[n + 1]>>
            ELSE NatStr(n \div 10) \o <<DigitChars[(n % 10) + 1]>>

IntStr(n) == IF n < 0 THEN <<"-">> \o NatStr(0 - n) ELSE NatStr(n)

RECURSIVE Join(_, _)
Join(pieces, sep) ==
  IF pieces = <<>> THEN <<>>
  ELSE IF Len(pieces) = 1 THEN pieces[1]
  ELSE pieces[1] \o sep \o Join(Tail(pieces), sep)

RuleStr(r) ==
  IntStr(r.action) \o <<":">> \o IntStr(r.weight) \o <<":">> \o IntStr(r.label)

\* blanks, when asked for, go after every comma and around the whole string
Written(pieces, blanks) ==
  IF blanks THEN <<" ">> \o Join(pieces, <<",", " ">>) \o <<" ">>
            ELSE Join(pieces, <<",">>)

\* action ids: the example's two and a two-digit one
ActionIds == {1, 2, 13}
\* rule weights: no copy, one copy, many copies
Weights == {0, 1, MaxWeight}
Rules == [action : ActionIds, weight : Weights, label : {-1, 1}]
Distinct(s) == \A i, j \in DOMAIN s : i # j => s[i] # s[j]
RuleLists ==
  {rs \in UNION {[1..n -> Rules] : n \in 1..MaxRules} :
     Distinct([i \in DOMAIN rs |-> rs[i].action])}
PriorityLists ==
  {ps \in UNION {[1..n -> ActionIds] : n \in 1..2} : Distinct(ps)}

-----------------------------------------------------------------------------
(* Reweighter *)

NoAction == 0

\* the record's action with the lowest index in the priority list
MatchedAction(actions, priorities) ==
  IF \E i \in DOMAIN priorities : priorities[i] \in actions
    THEN priorities[CHOOSE i \in DOMAIN priorities :
                      /\ priorities[i] \in actions
                      /\ \A j \in 1..(i - 1) : priorities[j] \notin actions]
    ELSE NoAction

\* reweight(record): weight copies labelled by the matched action's rule; a
\* record without a matched action, or without a rule for it, passes through
Reweight(rec, o) ==
  LET a == MatchedAction(rec.actions, o.priorities)
  IN IF a = NoAction \/ ~\E i \in DOMAIN o.actions : o.actions[i] = a
       THEN <<rec>>
       ELSE LET i == CHOOSE i \in DOMAIN o.actions : o.actions[i] = a
            IN [n \in 1..o.weights[i] |-> [rec EXCEPT !.label = o.labels[i]]]

RwIdle == rw = <<>>

RwInit ==
  \E rs \in RuleLists, ps \in PriorityLists, blanks \in BOOLEAN :
    rw = [stage           |-> "args",
          rules           |-> rs,
          prios           |-> ps,
          action_priority |-> Written([i \in DOMAIN ps |-> IntStr(ps[i])], blanks),
          reweight        |-> Written([i \in DOMAIN rs |-> RuleStr(rs[i])], blanks),
          op              |-> <<>>,
          rec             |-> [actions |-> {}, label |-> 0],
          out             |-> <<>>]

\* dataset.instance_reweight(action_priority, reweight)
RwConstruct ==
  /\ rw.stage = "args"
  /\ LET o == instance_reweight(rw.action_priority, rw.reweight)
     IN rw' = [rw EXCEPT !.op = o,
                         !.stage = IF o.error # "" THEN "failed" ELSE "built"]
  /\ UNCHANGED <<poolVars, flowVars, cancel, ctorVars>>

\* one record goes through the operator
RwProcess ==
  /\ rw.stage = "built"
  /\ \E acts \in SUBSET ActionIds, lab \in {-1, 1} :
       LET rec == [actions |-> acts, label |-> lab]
       IN rw' = [rw EXCEPT !.stage = "pulled", !.rec = rec,
                           !.out = Reweight(rec, rw.op)]
  /\ UNCHANGED <<poolVars, flowVars, cancel, ctorVars>>

RwNext == RwConstruct \/ RwProcess

-----------------------------------------------------------------------------
(* Claims about the reweighter *)

Str2_1 == <<"2", ",", "1">>
Str1_0_m1_2_3_1 ==
  <<"1", ":", "0", ":", "-", "1", ",", "2", ":", "3", ":", "1">>

\* what the claim says a record yields under a priority list and a rule list
RuleOf(a, rules) == rules[CHOOSE i \in DOMAIN rules : rules[i].action = a]
HasRule(a, rules) == \E i \in DOMAIN rules : rules[i].action = a
Copies(rec, n, lab) == [i \in 1..n |-> [rec EXCEPT !.label = lab]]

\* C3: with priorities and action:weight:label rules parsed from the two
\* strings, the matched action of a record is its action that comes first in
\* the priority list, and the operator emits weight copies labelled with the
\* rule's label (none for weight 0); a record with no action in the priority
\* list passes through unchanged.  With priority "2,1" and rules
\* "1:0:-1,2:3:1", actions [1], [2], [1,2] yield 0, 3 and 3 copies labelled 1.
C3_ReweightLaw ==
  /\ rw.stage # "failed"
  /\ rw.stage = "pulled" =>
       LET a == MatchedAction(rw.rec.actions, rw.prios)
       IN /\ a = NoAction => rw.out = <<rw.rec>>
          /\ (a # NoAction /\ HasRule(a, rw.rules)) =>
               rw.out = Copies(rw.rec, RuleOf(a, rw.rules).weight,
                               RuleOf(a, rw.rules).label)
          /\ (rw.action_priority = Str2_1 /\ rw.reweight = Str1_0_m1_2_3_1) =>
               /\ rw.rec.actions = {1} => rw.out = <<>>
               /\ rw.rec.actions \in {{2}, {1, 2}} =>
                    rw.out = Copies(rw.rec, 3, 1)

\* the example's third record: actions 1 and 2, priority picks 2, three copies
C3_Witness ==
  /\ rw.stage = "pulled"
  /\ rw.action_priority = Str2_1
  /\ rw.reweight = Str1_0_m1_2_3_1
  /\ rw.rec.actions = {1, 2}
  /\ rw.rec.label = -1
  /\ rw.out = <<[actions |-> {1, 2}, label |-> 1],
                [actions |-> {1, 2}, label |-> 1],
                [actions |-> {1, 2}, label |-> 1]>>


-----------------------------------------------------------------------------
-----------------------------------------------------------------------------
(* MergeFlowDataset.__init__: the checks on element types, shapes, classes *)

TypeError == "TypeError"
AssertionError == "AssertionError"

McIdle == mc = <<>>
KafkaIdle == kafka = <<>>
PbIdle == pb = <<>>
NgIdle == ng = <<>>
CtorIdle == McIdle /\ KafkaIdle /\ PbIdle /\ NgIdle

\* a TensorShape: of unknown rank, or its dimensions, None written as -1
NoneDim == -1
UnknownShape == [known |-> FALSE, dims |-> <<>>]
Shape(dims) == [known |-> TRUE, dims |-> dims]

\* TensorShape.most_specific_compatible_shape
most_specific_compatible_shape(ts1, ts2) ==
  IF ~ts1.known \/ ~ts2.known \/ Len(ts1.dims) # Len(ts2.dims)
    THEN UnknownShape
    ELSE Shape([i \in DOMAIN ts1.dims |->
                  IF ts1.dims[i] # NoneDim /\ ts2.dims[i] # NoneDim
                       /\ ts1.dims[i] = ts2.dims[i]
                    THEN ts1.dims[i] ELSE NoneDim])

\* TensorShape.__eq__ on the dimension lists; whether two unknown dimensions
\* compare equal depends on the library version (none_dims_equal)
ShapeEq(ts1, ts2, none_dims_equal) ==
  /\ ts1.known = ts2.known
  /\ Len(ts1.dims) = Len(ts2.dims)
  /\ \A i \in DOMAIN ts1.dims :
       /\ ts1.dims[i] = ts2.dims[i]
       /\ ts1.dims[i] = NoneDim => none_dims_equal

\* TensorShape.is_compatible_with
IsCompatibleShape(ts1, ts2) ==
  \/ ~ts1.known
  \/ ~ts2.known
  \/ /\ Len(ts1.dims) = Len(ts2.dims)
     /\ \A i \in DOMAIN ts1.dims :
          ts1.dims[i] = NoneDim \/ ts2.dims[i] = NoneDim
            \/ ts1.dims[i] = ts2.dims[i]

\* mutant: only the first dataset to merge has its element types compared
MergeFlowChecks_first_type_only(input_dataset, dataset_to_merge, none_dims_equal) ==
  LET spec(ds) == ds.element_spec
      relaxed(i) == most_specific_compatible_shape(
                      spec(input_dataset).shapes, spec(dataset_to_merge[i]).shapes)
  IN IF spec(dataset_to_merge[1]).types # spec(input_dataset).types
       THEN [error |-> TypeError]
     ELSE IF \E i \in 2..Len(dataset_to_merge) :
               ~ShapeEq(relaxed(1), relaxed(i), none_dims_equal)
       THEN [error |-> AssertionError]
     ELSE IF \E i \in DOMAIN dataset_to_merge :
               spec(dataset_to_merge[i]).classes # spec(input_dataset).classes
       THEN [error |-> TypeError]
     ELSE [error |-> "",
           structure |-> [types   |-> spec(input_dataset).types,
                          shapes  |-> relaxed(1),
                          classes |-> spec(input_dataset).classes]]

\* the three loops over dataset_to_merge (a non-empty list), in the code's
\* order: types (TypeError), relaxed shapes (assert), classes (TypeError)
MergeFlowChecks(input_dataset, dataset_to_merge, none_dims_equal) ==
  LET spec(ds) == ds.element_spec
      relaxed(i) == most_specific_compatible_shape(
                      spec(input_dataset).shapes, spec(dataset_to_merge[i]).shapes)
  IN IF \E i \in DOMAIN dataset_to_merge :
          spec(dataset_to_merge[i]).types # spec(input_dataset).types
       THEN [error |-> TypeError]
     ELSE IF \E i \in 2..Len(dataset_to_merge) :
               ~ShapeEq(relaxed(1), relaxed(i), none_dims_equal)
       THEN [error |-> AssertionError]
     ELSE IF \E i \in DOMAIN dataset_to_merge :
               spec(dataset_to_merge[i]).classes # spec(input_dataset).classes
       THEN [error |-> TypeError]
     ELSE [error |-> "",
           structure |-> [types   |-> spec(input_dataset).types,
                          shapes  |-> relaxed(1),
                          classes |-> spec(input_dataset).classes]]

ElementShapes == {UnknownShape, Shape(<<>>), Shape(<<2>>), Shape(<<3>>),
                  Shape(<<NoneDim>>)}
ElementSpecs == [types : {"variant", "string"}, shapes : ElementShapes,
                 classes : {"Tensor", "SparseTensor"}]
Datasets == [element_spec : ElementSpecs]
NoOp == [created |-> FALSE]

McInit ==
  \E d \in Datasets, n \in 1..MaxMerge, none_dims_equal \in BOOLEAN :
    \E ds \in [1..n -> Datasets] :
      mc = [stage |-> "args", input_dataset |-> d, dataset_to_merge |-> ds,
            none_dims_equal |-> none_dims_equal,
            error |-> "", structure |-> <<>>, op |-> NoOp]

\* MergeFlowDataset(input_dataset, dataset_to_merge)
McConstruct ==
  /\ mc.stage = "args"
  /\ LET c == MergeFlowChecks(mc.input_dataset, mc.dataset_to_merge,
                              mc.none_dims_equal)
     IN IF c.error # ""
          THEN mc' = [mc EXCEPT !.stage = "done", !.error = c.error]
          ELSE mc' = [mc EXCEPT
                        !.stage = "done",
                        !.structure = c.structure,
                        !.op = [created |-> TRUE,
                                attrs |-> MergeFlowDataset(mc.input_dataset,
                                            mc.dataset_to_merge, 1024)]]
  /\ UNCHANGED <<poolVars, flowVars, cancel, rw, kafka, pb, ng>>

McNext == McConstruct

-----------------------------------------------------------------------------
(* Claims about MergeFlowDataset construction *)

McTypesDiffer ==
  \E i \in DOMAIN mc.dataset_to_merge :
    mc.dataset_to_merge[i].element_spec.types # mc.input_dataset.element_spec.types
McClassesDiffer ==
  \E i \in DOMAIN mc.dataset_to_merge :
    mc.dataset_to_merge[i].element_spec.classes
      # mc.input_dataset.element_spec.classes
McShapesIncompatible ==
  \E i \in DOMAIN mc.dataset_to_merge :
    ~IsCompatibleShape(mc.input_dataset.element_spec.shapes,
                       mc.dataset_to_merge[i].element_spec.shapes)

-----------------------------------------------------------------------------
(* KafkaDataset.__init__ *)


\* sys.maxsize; stands for 2^63 - 1, above every timeout explored
SysMaxSize == 2147483647

\* mutant: the smaller of the two timeouts is kept
KafkaStreamTimeout_min(stream_timeout, message_poll_timeout) ==
  IF stream_timeout = -1 THEN [error |-> "", stream_timeout |-> SysMaxSize]
  ELSE IF stream_timeout >= 0
    THEN [error |-> "",
          stream_timeout |-> Min(stream_timeout, message_poll_timeout)]
  ELSE [error |-> ValueError, stream_timeout |-> stream_timeout]

\* the if / elif / else on stream_timeout
KafkaStreamTimeout(stream_timeout, message_poll_timeout) ==
  IF stream_timeout = -1 THEN [error |-> "", stream_timeout |-> SysMaxSize]
  ELSE IF stream_timeout >= 0
    THEN [error |-> "",
          stream_timeout |-> Max(stream_timeout, message_poll_timeout)]
  ELSE [error |-> ValueError, stream_timeout |-> stream_timeout]

\* KafkaDataset.__init__, up to the dataset it builds: the timeout, then the
\* metadata with the assert on poll_batch_size
KafkaDataset(a) ==
  LET t == KafkaStreamTimeout(a.stream_timeout, a.message_poll_timeout)
  IN IF t.error # "" THEN [error |-> t.error, built |-> FALSE]
     ELSE IF ~a.poll_batch_size.none /\ ~(a.poll_batch_size.val > 0)
       THEN [error |-> AssertionError, built |-> FALSE]
     ELSE [error |-> "", built |-> TRUE,
           metadata |-> <<"group.id", "bootstrap.servers">>
                          \o (IF a.poll_batch_size.none THEN <<>>
                              ELSE <<"batch.num.messages">>),
           message_poll_timeout |-> a.message_poll_timeout,
           stream_timeout |-> t.stream_timeout]

KafkaArgs ==
  [stream_timeout : (-3)..MaxTimeout,
   message_poll_timeout : 0..MaxTimeout,
   poll_batch_size : {[none |-> TRUE, val |-> 0], [none |-> FALSE, val |-> 0],
                      [none |-> FALSE, val |-> 1024]}]

KafkaInit ==
  \E a \in KafkaArgs : kafka = [stage |-> "args", args |-> a, ds |-> <<>>]

KafkaConstruct ==
  /\ kafka.stage = "args"
  /\ kafka' = [kafka EXCEPT !.stage = "done", !.ds = KafkaDataset(kafka.args)]
  /\ UNCHANGED <<poolVars, flowVars, cancel, rw, mc, pb, ng>>

KafkaNext == KafkaConstruct

-----------------------------------------------------------------------------
(* Claims about KafkaDataset construction *)

KafkaBatchOk ==
  kafka.args.poll_batch_size.none \/ kafka.args.poll_batch_size.val > 0

\* C8, as claimed: a stream_timeout other than -1 that is below
\* message_poll_timeout is an invalid configuration: construction fails.
C8_FailsBelowPollTimeout ==
  (/\ kafka.stage = "done"
   /\ kafka.args.stream_timeout # -1
   /\ kafka.args.stream_timeout < kafka.args.message_poll_timeout)
    => ~kafka.ds.built

\* C8, amended: stream_timeout = -1 blocks indefinitely (sys.maxsize); a
\* stream_timeout from 0 up to the poll timeout is not rejected but raised to
\* message_poll_timeout; only a stream_timeout below -1 fails (ValueError); so
\* no dataset is built with an effective stream timeout below the poll timeout.
C8_ClampedToPollTimeout ==
  kafka.stage = "done" =>
    /\ kafka.args.stream_timeout < -1 =>
         (kafka.ds.error = ValueError /\ ~kafka.ds.built)
    /\ (kafka.args.stream_timeout >= -1 /\ KafkaBatchOk) => kafka.ds.built
    /\ kafka.ds.built =>
         /\ kafka.ds.stream_timeout >= kafka.ds.message_poll_timeout
         /\ kafka.ds.message_poll_timeout = kafka.args.message_poll_timeout
         /\ kafka.args.stream_timeout = -1 =>
              kafka.ds.stream_timeout = SysMaxSize
         /\ kafka.args.stream_timeout >= 0 =>
              kafka.ds.stream_timeout =
                Max(kafka.args.stream_timeout, kafka.args.message_poll_timeout)

\* a dataset built from a stream_timeout below the poll timeout, raised to it
C8_Witness ==
  /\ kafka.stage = "done"
  /\ kafka.args.stream_timeout >= 0
  /\ kafka.args.stream_timeout < kafka.args.message_poll_timeout
  /\ kafka.ds.built
  /\ kafka.ds.stream_timeout = kafka.args.message_poll_timeout

-----------------------------------------------------------------------------
(* PBDataset.__init__ *)

AS_IS == 0
PRUNING_FEATURE == 1
PRUNING_RAW_FEATURE == 2
PbTypes == {"INSTANCE", "EXAMPLEBATCH", "EXAMPLE", "PLAINTEXT"}
NoneSlot == -1

\* the try block: FeatureList.parse(), then the loop that appends name and
\* slot until a feature fails the assert; what the lists hold afterwards
RECURSIVE LoadedPrefix(_)
LoadedPrefix(features) ==
  IF features = <<>> \/ Head(features).slot = NoneSlot
    THEN <<>>
    ELSE <<Head(features)>> \o LoadedPrefix(Tail(features))

LoadFeatureList(fl) ==
  IF fl.parse_raises THEN [failed |-> TRUE, loaded |-> <<>>]
  ELSE [failed |-> \E i \in DOMAIN fl.features : fl.features[i].slot = NoneSlot,
        loaded |-> LoadedPrefix(fl.features)]

\* the attributes of pb_dataset
PBDataset(a, fl) ==
  LET input_pb_type == a.input_pb_type
      output_pb_type == IF input_pb_type = "INSTANCE" THEN "INSTANCE"
                                                      ELSE "EXAMPLE"
      load == IF input_pb_type \in {"EXAMPLEBATCH", "EXAMPLE"}
                THEN LoadFeatureList(fl)
                ELSE [failed |-> FALSE, loaded |-> <<>>]
  IN [input_pb_type        |-> input_pb_type,
      output_pb_type       |-> output_pb_type,
      out_type             |-> IF output_pb_type = "PLAINTEXT" THEN "string"
                                                               ELSE "variant",
      buffer_size          |-> IF input_pb_type = "EXAMPLEBATCH"
                                 THEN 128 * 1024 * 1024 ELSE 64 * 1024 * 1024,
      feature_pruning_type |-> a.feature_pruning_type,
      feature_name_list    |-> [i \in DOMAIN load.loaded |-> load.loaded[i].name],
      feature_id_list      |-> [i \in DOMAIN load.loaded |-> load.loaded[i].slot]]

Features == [name : {"f1", "f2"}, slot : {NoneSlot, 1}]
FeatureLists ==
  [parse_raises : BOOLEAN,
   features : UNION {[1..n -> Features] : n \in 0..MaxFeatures}]
PbArgs ==
  [input_pb_type : PbTypes,
   feature_pruning_type : {AS_IS, PRUNING_FEATURE, PRUNING_RAW_FEATURE}]

PbInit ==
  \E a \in PbArgs, fl \in FeatureLists :
    pb = [stage |-> "args", args |-> a, feature_list |-> fl, ds |-> <<>>]

PbConstruct ==
  /\ pb.stage = "args"
  /\ pb' = [pb EXCEPT !.stage = "done",
                      !.ds = PBDataset(pb.args, pb.feature_list)]
  /\ UNCHANGED <<poolVars, flowVars, cancel, rw, mc, kafka, ng>>

PbNext == PbConstruct

-----------------------------------------------------------------------------
(* Claims about PBDataset construction *)

PbLoadFailed ==
  /\ pb.args.input_pb_type \in {"EXAMPLEBATCH", "EXAMPLE"}
  /\ LoadFeatureList(pb.feature_list).failed

\* C9: when loading the feature list fails during the construction of a
\* PBDataset over EXAMPLE or EXAMPLEBATCH input, the decoder is configured to
\* prune AS_IS: it gets empty feature_name_list and feature_id_list and the
\* pruning type AS_IS.
C9_LoadFailureDegradesToAsIs ==
  (pb.stage = "done" /\ PbLoadFailed) =>
    /\ pb.ds.feature_pruning_type = AS_IS
    /\ pb.ds.feature_name_list = <<>>
    /\ pb.ds.feature_id_list = <<>>

-----------------------------------------------------------------------------
(* Dataset.negative_gen and NegativeGenDataset.__init__: the two entry points
   of the negative generator, called with keyword arguments *)

\* the defaults in the signature of NegativeGenDataset.__init__
NegativeGenDataset_defaults ==
  [per_channel      |-> FALSE,
   start_num        |-> 500,
   max_item_num     |-> 100000,
   positive_label   |-> 1,
   negative_label   |-> -1,
   throw_origin     |-> FALSE,
   throw_origin_neg |-> FALSE,
   cache_only_pos   |-> TRUE]

\* the defaults in the signature of negative_gen
negative_gen_defaults ==
  [per_channel      |-> FALSE,
   start_num        |-> 500,
   max_item_num     |-> 100000,
   positive_label   |-> 1,
   negative_label   |-> -1,
   throw_origin     |-> FALSE,
   throw_origin_neg |-> FALSE,
   cache_only_pos   |-> FALSE]

\* a call binds the keywords it is given and the defaults of the others
Bind(given, defaults) ==
  [p \in DOMAIN given \cup DOMAIN defaults |->
     IF p \in DOMAIN given THEN given[p] ELSE defaults[p]]

\* NegativeGenDataset(dataset, **given)
NegativeGenDataset_call(given) ==
  NegativeGenDataset(Bind(given, NegativeGenDataset_defaults))

\* dataset.negative_gen(**given): every parameter, given or defaulted, is
\* handed to NegativeGenDataset by keyword
negative_gen(given) ==
  NegativeGenDataset_call(Bind(given, negative_gen_defaults))

\* the keyword sets that are explored: neg_num, and any of the others
Given ==
  {[p \in ks \cup {"neg_num"} |-> a[p]] :
     ks \in SUBSET DOMAIN negative_gen_defaults, a \in NegGenArgs}

NgInit ==
  \E g \in Given : ng = [stage |-> "args", given |-> g,
                         by_method |-> <<>>, by_ctor |-> <<>>]

\* the same keywords go through negative_gen and through the constructor
NgConstruct ==
  /\ ng.stage = "args"
  /\ ng' = [ng EXCEPT !.stage = "built",
                      !.by_method = negative_gen(ng.given),
                      !.by_ctor = NegativeGenDataset_call(ng.given)]
  /\ UNCHANGED <<poolVars, flowVars, cancel, rw, mc, kafka, pb>>

NgNext == NgConstruct

\* C12: for every set of keyword arguments, the others left at their
\* defaults, dataset.negative_gen(...) configures the negative generator
\* exactly as NegativeGenDataset(dataset, ...) with the same keywords does.
C12_SameOperation ==
  ng.stage = "built" => ng.by_method = ng.by_ctor

-----------------------------------------------------------------------------
(* Specifications: one per operator, the other operators' state left idle *)

\* the negative generator over its item pool
Init == PoolInit /\ FlowIdle /\ RwIdle /\ CtorIdle
Next == PoolNext
Spec == Init /\ [][Next]_vars

\* split and merge over a finite input
InitFlow == PoolIdle /\ FlowInit(FlowArgs) /\ RwIdle /\ CtorIdle
SpecFlow == InitFlow /\ [][FlowNext]_vars

\* split and merge over an endless input, fairly scheduled
InitStream == PoolIdle /\ FlowInit(StreamArgs) /\ RwIdle /\ CtorIdle
SpecStream == InitStream /\ [][StreamNext]_vars /\ StreamFairness

\* split and merge with a consumer that stops early and cancels
InitCancel == PoolIdle /\ FlowInit(FlowArgs) /\ RwIdle /\ CtorIdle
SpecCancel == InitCancel /\ [][CancelNext]_vars /\ CancelFairness

\* the reweighter
InitReweight == PoolIdle /\ FlowIdle /\ RwInit /\ CtorIdle
SpecReweight == InitReweight /\ [][RwNext]_vars

\* MergeFlowDataset construction
InitMerge ==
  PoolIdle /\ FlowIdle /\ RwIdle /\ McInit /\ KafkaIdle /\ PbIdle /\ NgIdle
SpecMerge == InitMerge /\ [][McNext]_vars

\* KafkaDataset construction
InitKafka ==
  PoolIdle /\ FlowIdle /\ RwIdle /\ McIdle /\ KafkaInit /\ PbIdle /\ NgIdle
SpecKafka == InitKafka /\ [][KafkaNext]_vars

\* the negative generator built through negative_gen and through its class
InitNegGen ==
  PoolIdle /\ FlowIdle /\ RwIdle /\ McIdle /\ KafkaIdle /\ PbIdle /\ NgInit
SpecNegGen == InitNegGen /\ [][NgNext]_vars

\* PBDataset construction
InitPB ==
  PoolIdle /\ FlowIdle /\ RwIdle /\ McIdle /\ KafkaIdle /\ PbInit /\ NgIdle
SpecPB == InitPB /\ [][PbNext]_vars

====
